---- MODULE Spec2Model ----
(***************************************************************************)
(* Session context manager (upsf_sess_ctx_manager/app.py).                 *)
(*                                                                         *)
(* The UPSF registry holds shards, service gateway user planes (SGUPs)     *)
(* and session contexts.  SessionContextManager.map_session assigns a      *)
(* shard to a session context, map_all_sessions does so for every listed   *)
(* context, run() dispatches watch events, create_default_items creates    *)
(* the session contexts of the policy file.                                *)
(*                                                                         *)
(* Strings that the code splits or concatenates are sequences of           *)
(* one-character strings; names that are only compared are TLA+ strings.   *)
(***************************************************************************)
EXTENDS Integers, Sequences, FiniteSets, TLC

\* ------------------------------------------------------------------ bounds
MaxCap == 3        \* largest max_session_count of a shard or SGUP
MaxCtx == 2        \* session contexts in the UPSF when a client creates one more
MaxShardEvents == 1    \* shard records written by other clients of the UPSF
MaxFails == 1      \* UPSF calls that raise UpsfError
MaxItems == 2      \* items of the watch stream delivered to a subscription
NRacers == 3       \* placement invocations that race for the same shard

\* ------------------------------------------------------------------ names
SgupNames == {"A", "B"}
ShardNames == {"X", "Y"}
Basic == <<"b">>       \* service group "b"
Premium == <<"p">>     \* service group "p"

VARIABLES
    shards,     \* UPSF: shard name -> [sgup, max, alloc]
    sgups,      \* UPSF: SGUP name -> [ssg, max, alloc]
    sctxs,      \* UPSF: session context name -> [rq, rsg, shard]
    stream,     \* watch events emitted by the UPSF, not yet delivered
    cfg,        \* attributes set by initialize() and the policy file
    pc,         \* position of the thread that runs initialize() and run()
    todo,       \* map_all_sessions: listed session contexts not yet mapped
    inv,        \* the last map_session invocation (history)
    bumps,      \* per session context: counter bumps made on its behalf (history)
    extShard,   \* shard events caused by other clients so far (history)
    mpc,        \* position of the thread that runs upsf_register_task
    cycle,      \* the last create_default_items() call (history)
    created,    \* per name: session contexts create_session_context created (history)
    fails,      \* UPSF calls that raised UpsfError so far (history)
    stop,       \* _stop_thread: is the stop signal set?
    mainpc,     \* position of main() after shardmgr.start()
    racers,     \* peer placement invocations: their position and the value they read
    writes      \* parity of the number of map_session invocations that wrote (history)

upsf == <<shards, sgups, sctxs>>
mat == <<mpc, created>>
env == <<extShard, fails>>
ctl == <<stop, mainpc>>
peers == <<racers>>
vars == <<shards, sgups, sctxs, stream, cfg, pc, todo, inv, bumps, extShard,
          mpc, cycle, created, fails, stop, mainpc, racers, writes>>

\* ------------------------------------------------------------------ helpers
ToSet(s) == {s[i] : i \in 1..Len(s)}

Upd(f, k, v) == [x \in DOMAIN f \cup {k} |-> IF x = k THEN v ELSE f[x]]

\* dict.get(key, default)
Get(d, k, dflt) == IF k \in DOMAIN d THEN d[k] ELSE dflt

NoParams == [k \in {} |-> 0]

\* str.split(",") on a sequence of characters
RECURSIVE SplitAcc(_, _, _)
SplitAcc(s, cur, acc) ==
    IF s = <<>> THEN Append(acc, cur)
    ELSE IF Head(s) = "," THEN SplitAcc(Tail(s), <<>>, Append(acc, cur))
    ELSE SplitAcc(Tail(s), Append(cur, Head(s)), acc)

split(s) == SplitAcc(s, <<>>, <<>>)

\* the UPSF as one value
Upsf(sh, sg, sc) == [shards |-> sh, sgups |-> sg, sctxs |-> sc]

\* a session context record as list_session_contexts or an event carries it
CtxRecord(sc, n) == [name |-> n, rq |-> sc[n].rq, rsg |-> sc[n].rsg, shard |-> sc[n].shard]

NoCtx == [name |-> "", rq |-> 0, rsg |-> <<>>, shard |-> ""]

ShardEvent(x) == [shard |-> x, sctx |-> NoCtx]
CtxEvent(rec) == [shard |-> "", sctx |-> rec]

\* ------------------------------------------------------------------ map_session
\* sctx.spec.required_quality in (0, None, "")
UnsetQuality(q) == q = 0

\* sctx.spec.required_service_group in ([], [""], None, "")
UnsetGroups(l) == l = <<>> \/ l = << <<>> >>

\* sctx.spec.desired_state.shard in (None, "")
UnsetShard(s) == s = ""

\* [rsg for rsg in default_required_service_groups.split(",") if rsg not in (None, "")]
DefaultGroups(c) ==
    SelectSeq(split(c.default_required_service_groups), LAMBDA r : r # <<>>)

\* params after the two defaults blocks
DefaultsParams(c, sctx) ==
    (IF UnsetQuality(sctx.rq)
        THEN "required_quality" :> c.default_required_quality ELSE NoParams)
    @@ (IF UnsetGroups(sctx.rsg)
        THEN "required_service_group" :> DefaultGroups(c) ELSE NoParams)

\* the guard of the "set shard" block
WantsShard(sctx) == UnsetShard(sctx.shard) /\ ~UnsetGroups(sctx.rsg)

\* shard_candidate_sgups
ShardCandidateSgups(sh) == {sh[x].sgup : x \in DOMAIN sh}

\* service_gateway_user_planes (keys)
HostingSgups(sh, sg) == {g \in DOMAIN sg : g \in ShardCandidateSgups(sh)}

\* sgup_candidates
SgupCandidates_anyGroups(sh, sg, sctx) ==
    {g \in HostingSgups(sh, sg) : sg[g].alloc < sg[g].max}

SgupCandidates(sh, sg, sctx) ==
    {g \in HostingSgups(sh, sg) : /\ ToSet(sctx.rsg) \subseteq sg[g].ssg
                                  /\ sg[g].alloc < sg[g].max}

\* keys of sgup_load
SgupLoad(sh, sg, sctx) ==
    {g \in SgupCandidates(sh, sg, sctx) :
        /\ g \in HostingSgups(sh, sg)
        /\ sg[g].max > 0
        /\ sg[g].alloc < sg[g].max}

\* float(a.alloc / a.max) <= float(b.alloc / b.max), both max > 0
LoadLeq(a, b) == a.alloc * b.max <= b.alloc * a.max

\* the keys min(load, key=load.get) can return: the first key of least load in
\* the iteration order of the dict, which for sgup_load is the order of a set
Least_byCount(keys, recs) ==
    {k \in keys : \A h \in keys : recs[k].alloc <= recs[h].alloc}

Least(keys, recs) ==
    {k \in keys : \A h \in keys : LoadLeq(recs[k], recs[h])}

\* shard_candidates for the selected sgup (keys)
ShardCandidates(sh, g) == {x \in DOMAIN sh : sh[x].sgup = g}

\* keys of shard_load
ShardLoad_full(sh, g) ==
    {x \in ShardCandidates(sh, g) : sh[x].max > 0 /\ sh[x].alloc <= sh[x].max}

ShardLoad(sh, g) ==
    {x \in ShardCandidates(sh, g) : sh[x].max > 0 /\ sh[x].alloc < sh[x].max}

\* The UPSF calls of map_session that can raise UpsfError
FailPoints == {"none", "list_shards", "list_service_gateway_user_planes",
               "get_shard", "update_shard", "get_service_gateway_user_plane",
               "update_service_gateway_user_plane", "update_session_context"}

\* what an invocation leaves behind: the UPSF, the writes issued, the events
\* the UPSF emits for them, how the invocation ended, the selected SGUP and shard
Result(U, calls, events, outcome, g, x) ==
    [shards |-> U.shards, sgups |-> U.sgups, sctxs |-> U.sctxs,
     calls |-> calls, events |-> events, outcome |-> outcome,
     sgup |-> g, shard |-> x]

\* update_session_context(**params): only the named fields are written
UpdatedCtx(old, params) ==
    [rq |-> Get(params, "required_quality", old.rq),
     rsg |-> Get(params, "required_service_group", old.rsg),
     shard |-> Get(params, "desired_shard", old.shard)]

\* "update session context if any attribute has changed"
Commit_noEvent(U, sctx, params, calls, events, fail, g, x) ==
    IF DOMAIN params = {}
    THEN Result(U, calls, events, "returned", g, x)
    ELSE IF fail = "update_session_context" \/ sctx.name \notin DOMAIN U.sctxs
    THEN Result(U, calls, events, "UpsfError", g, x)
    ELSE Result(Upsf(U.shards, U.sgups,
                     Upd(U.sctxs, sctx.name, UpdatedCtx(U.sctxs[sctx.name], params))),
                Append(calls, [op |-> "update_session_context",
                               name |-> sctx.name, params |-> params]),
                events, "returned", g, x)

Commit_always(U, sctx, params, calls, events, fail, g, x) ==
    IF fail = "update_session_context" \/ sctx.name \notin DOMAIN U.sctxs
    THEN Result(U, calls, events, "UpsfError", g, x)
    ELSE LET new == UpdatedCtx(U.sctxs[sctx.name], params)
             sc == Upd(U.sctxs, sctx.name, new)
         IN  Result(Upsf(U.shards, U.sgups, sc),
                    Append(calls, [op |-> "update_session_context",
                                   name |-> sctx.name, params |-> params]),
                    Append(events, CtxEvent(CtxRecord(sc, sctx.name))),
                    "returned", g, x)

Commit(U, sctx, params, calls, events, fail, g, x) ==
    IF DOMAIN params = {}
    THEN Result(U, calls, events, "returned", g, x)
    ELSE IF fail = "update_session_context" \/ sctx.name \notin DOMAIN U.sctxs
    THEN Result(U, calls, events, "UpsfError", g, x)
    ELSE LET new == UpdatedCtx(U.sctxs[sctx.name], params)
             sc == Upd(U.sctxs, sctx.name, new)
         IN  Result(Upsf(U.shards, U.sgups, sc),
                    Append(calls, [op |-> "update_session_context",
                                   name |-> sctx.name, params |-> params]),
                    Append(events, CtxEvent(CtxRecord(sc, sctx.name))),
                    "returned", g, x)

\* the counter bump of the selected shard and SGUP, then the commit
Bump_allShards(U, sctx, params, fail, g, x) ==
    LET sh == [y \in DOMAIN U.shards |->
                 IF U.shards[y].sgup = g
                 THEN [U.shards[y] EXCEPT !.alloc = @ + 1] ELSE U.shards[y]]
        n2 == U.sgups[g].alloc + 1
        U2 == Upsf(sh, Upd(U.sgups, g, [U.sgups[g] EXCEPT !.alloc = n2]), U.sctxs)
    IN  Commit(U2, sctx, params @@ ("desired_shard" :> x),
               <<[op |-> "update_shard", name |-> x,
                  params |-> ("allocated_session_count" :> sh[x].alloc)],
                 [op |-> "update_service_gateway_user_plane", name |-> g,
                  params |-> ("allocated_session_count" :> n2)]>>,
               <<ShardEvent(x)>>, fail, g, x)

Bump_sgupFirst(U, sctx, params, fail, g, x) ==
    LET n1 == U.shards[x].alloc + 1
        n2 == U.sgups[g].alloc + 1
        U1 == Upsf(U.shards, Upd(U.sgups, g, [U.sgups[g] EXCEPT !.alloc = n2]), U.sctxs)
        c1 == <<[op |-> "update_service_gateway_user_plane", name |-> g,
                 params |-> ("allocated_session_count" :> n2)]>>
    IN
    IF fail \in {"get_service_gateway_user_plane", "update_service_gateway_user_plane"}
    THEN Result(U, <<>>, <<>>, "UpsfError", g, x)
    ELSE IF fail \in {"get_shard", "update_shard"}
    THEN Result(U1, c1, <<>>, "UpsfError", g, x)
    ELSE Commit(Upsf(Upd(U.shards, x, [U.shards[x] EXCEPT !.alloc = n1]), U1.sgups, U.sctxs),
                sctx, params @@ ("desired_shard" :> x),
                Append(c1, [op |-> "update_shard", name |-> x,
                            params |-> ("allocated_session_count" :> n1)]),
                <<ShardEvent(x)>>, fail, g, x)

Bump(U, sctx, params, fail, g, x) ==
    IF fail \in {"get_shard", "update_shard"}
    THEN Result(U, <<>>, <<>>, "UpsfError", g, x)
    ELSE
    LET n1 == U.shards[x].alloc + 1
        U1 == Upsf(Upd(U.shards, x, [U.shards[x] EXCEPT !.alloc = n1]), U.sgups, U.sctxs)
        c1 == <<[op |-> "update_shard", name |-> x,
                 params |-> ("allocated_session_count" :> n1)]>>
        e1 == <<ShardEvent(x)>>
    IN
    IF fail \in {"get_service_gateway_user_plane", "update_service_gateway_user_plane"}
    THEN Result(U1, c1, e1, "UpsfError", g, x)
    ELSE
    LET n2 == U1.sgups[g].alloc + 1
        U2 == Upsf(U1.shards, Upd(U1.sgups, g, [U1.sgups[g] EXCEPT !.alloc = n2]), U1.sctxs)
        c2 == Append(c1, [op |-> "update_service_gateway_user_plane", name |-> g,
                          params |-> ("allocated_session_count" :> n2)])
    IN  Commit(U2, sctx, params @@ ("desired_shard" :> x), c2, e1, fail, g, x)

\* "any sgup candidates available at all?": no
NoSgupCandidates_commits(U, sctx, params, fail) ==
    Commit(U, sctx, params, <<>>, <<>>, fail, "", "")

NoSgupCandidates(U, sctx, params, fail) ==
    Result(U, <<>>, <<>>, "returned", "", "")

\* the counter bump when the lists were read in the UPSF S and the UPSF is U
\* by the time of get_shard: the lists are not used for the counters
BumpFrom_snapshot(S, U, sctx, params, fail, g, x) ==
    Bump(Upsf([U.shards EXCEPT ![x].alloc = S.shards[x].alloc], U.sgups, U.sctxs),
         sctx, params, fail, g, x)

BumpFrom_rollback(S, U, sctx, params, fail, g, x) ==
    LET r == Bump(U, sctx, params, fail, g, x)
    IN  IF r.outcome = "UpsfError"
        THEN [r EXCEPT !.shards = U.shards, !.sgups = U.sgups]
        ELSE r

BumpFrom(S, U, sctx, params, fail, g, x) == Bump(U, sctx, params, fail, g, x)

\* the "set shard" block: every result the selection can produce, with the
\* lists read in the UPSF S and the calls after them made on the UPSF U
SetShardFrom(S, U, sctx, params, fail) ==
    LET sh == S.shards
        sg == S.sgups
    IN
    IF SgupCandidates(sh, sg, sctx) = {}
    THEN {NoSgupCandidates(U, sctx, params, fail)}
    ELSE IF SgupLoad(sh, sg, sctx) = {}
    THEN {Result(U, <<>>, <<>>, "ValueError", "", "")}
    ELSE UNION {
        IF ShardCandidates(sh, g) = {}
        THEN {Result(U, <<>>, <<>>, "returned", g, "")}
        ELSE IF ShardLoad(sh, g) = {}
        THEN {Result(U, <<>>, <<>>, "ValueError", g, "")}
        ELSE {BumpFrom(S, U, sctx, params, fail, g, x) : x \in Least(ShardLoad(sh, g), sh)}
        : g \in Least(SgupLoad(sh, sg, sctx), sg)}

SetShard(U, sctx, params, fail) == SetShardFrom(U, U, sctx, params, fail)

\* map_session(sctx) with the lists read in the UPSF S and the later calls
\* made on the UPSF U, with UpsfError raised by the call `fail`
map_session_from(c, S, U, sctx, fail) ==
    IF fail = "list_shards"
    THEN {Result(U, <<>>, <<>>, "UpsfError", "", "")}
    ELSE IF DOMAIN S.shards = {}
    THEN {Result(U, <<>>, <<>>, "returned", "", "")}
    ELSE IF fail = "list_service_gateway_user_planes"
    THEN {Result(U, <<>>, <<>>, "UpsfError", "", "")}
    ELSE IF DOMAIN S.sgups = {}
    THEN {Result(U, <<>>, <<>>, "returned", "", "")}
    ELSE IF WantsShard(sctx)
    THEN SetShardFrom(S, U, sctx, DefaultsParams(c, sctx), fail)
    ELSE {Commit(U, sctx, DefaultsParams(c, sctx), <<>>, <<>>, fail, "", "")}

\* map_session(sctx) on the UPSF U when no other client writes meanwhile
map_session(c, U, sctx, fail) == map_session_from(c, U, U, sctx, fail)


\* ------------------------------------------------------------------ history
\* no peer placement invocation is under way
NoRacers == [w \in {} |-> 0]

\* `writes` after an invocation of map_session that ends with result r
Wrote(record, r) == IF record /\ r.calls # <<>> THEN ~writes ELSE writes

NoCycle == [outcome |-> "none", shards |-> {}, before |-> [n \in {} |-> 0],
            issued |-> <<>>]

NoInv(U) == [sctx |-> NoCtx, pre |-> U, calls |-> <<>>, outcome |-> "none",
             sgup |-> "", shard |-> "", fail |-> "none"]

\* has the invocation with these calls bumped a counter?
HasBump(calls) == \E i \in 1..Len(calls) : calls[i].op = "update_shard"

\* the calls of map_session that may still raise UpsfError
FailChoices == IF fails < MaxFails THEN FailPoints ELSE {"none"}

\* may this list or subscribe call still raise UpsfError?
RaiseChoices == IF fails < MaxFails THEN BOOLEAN ELSE {FALSE}

\* the record of an invocation of map_session(sctx) that ends with result r
Invocation(sctx, fail, r) ==
    [sctx |-> sctx, pre |-> Upsf(shards, sgups, sctxs), calls |-> r.calls,
     outcome |-> r.outcome, sgup |-> r.sgup, shard |-> r.shard, fail |-> fail]

\* an invocation of map_session(sctx) that ends with result r
Invoke(sctx, fail, r) ==
    /\ shards' = r.shards
    /\ sgups' = r.sgups
    /\ sctxs' = r.sctxs
    /\ fails' = IF r.outcome = "UpsfError" THEN fails + 1 ELSE fails
    /\ bumps' = IF HasBump(r.calls)
                THEN Upd(bumps, sctx.name, Get(bumps, sctx.name, 0) + 1)
                ELSE bumps

\* ------------------------------------------------------------------ registry contents
Caps == {c \in [max : 0..MaxCap, alloc : 0..MaxCap] : c.alloc <= c.max}

\* unused capacity only
FreeCaps == {c \in Caps : c.max = MaxCap /\ c.alloc = 0}

Ssg(g) == IF g = "A" THEN {Basic} ELSE {Basic, Premium}

SgupTables(caps) ==
    UNION {[D -> {[ssg |-> Ssg(g), max |-> c.max, alloc |-> c.alloc] :
                    g \in SgupNames, c \in caps}] : D \in SUBSET SgupNames}

SgupTablesOk(caps) == {t \in SgupTables(caps) : \A g \in DOMAIN t : t[g].ssg = Ssg(g)}

ShardTables(caps) ==
    UNION {[D -> {[sgup |-> g, max |-> c.max, alloc |-> c.alloc] :
                    g \in SgupNames, c \in caps}] : D \in SUBSET ShardNames}

\* shard Y, when there is one, is hosted on B
ShardTablesOk(caps) == {t \in ShardTables(caps) : "Y" \in DOMAIN t => t["Y"].sgup = "B"}

NoFile == [exists |-> FALSE, empty |-> TRUE, sessionContexts |-> <<>>]

Defaults(q, g) == [default_required_quality |-> q,
                   default_required_service_groups |-> g,
                   config_file |-> NoFile,
                   upsf_auto_register |-> FALSE]

\* ------------------------------------------------------------------ PlaceSpec
\* map_session called once on a listed session context, over all registry contents
PlaceInit ==
    /\ \/ shards \in ShardTablesOk(Caps) /\ sgups \in SgupTablesOk(FreeCaps)
       \/ shards \in ShardTablesOk(FreeCaps) /\ sgups \in SgupTablesOk(Caps)
    /\ \E q \in {0, 500}, l \in {<<>>, <<Basic>>, <<Premium>>}, s \in {"", "X"} :
          sctxs = ("c1" :> [rq |-> q, rsg |-> l, shard |-> s])
                  @@ ("c2" :> [rq |-> 0, rsg |-> <<Basic>>, shard |-> ""])
    /\ cfg = Defaults(1000, <<"b">>)
    /\ stream = <<>>
    /\ pc = "call"
    /\ todo = {}
    /\ inv = NoInv(Upsf(shards, sgups, sctxs))
    /\ bumps = [n \in {} |-> 0]
    /\ extShard = 0
    /\ stop = FALSE /\ mainpc = "running"
    /\ racers = NoRacers /\ writes = FALSE
    /\ mpc = "off" /\ cycle = NoCycle
    /\ created = [n \in {} |-> 0]
    /\ fails = 0

MapSessionCall ==
    /\ pc = "call"
    /\ \E n \in DOMAIN sctxs, fail \in FailChoices :
       \E r \in map_session(cfg, Upsf(shards, sgups, sctxs), CtxRecord(sctxs, n), fail) :
          /\ Invoke(CtxRecord(sctxs, n), fail, r)
          /\ inv' = Invocation(CtxRecord(sctxs, n), fail, r)
          /\ stream' = r.events
    /\ pc' = "called"
    /\ UNCHANGED <<peers, writes, ctl, cfg, todo, cycle, extShard, mat>>

PlaceNext == MapSessionCall

PlaceSpec == PlaceInit /\ [][PlaceNext]_vars


\* ------------------------------------------------------------------ create_default_items
\* hashlib.md5(...).hexdigest(): a name that is a function of the hashed text
md5_hexdigest(text) == "md5(" \o text \o ")"

\* session_hash(**kwargs): the five components concatenated without separator
session_hash(circuit_id, remote_id, source_mac_address, svlan, cvlan) ==
    md5_hexdigest(circuit_id \o remote_id \o source_mac_address \o svlan \o cvlan)

\* sctx_hash of create_session_context(entry, ...)
EntryHash(entry) ==
    session_hash(Get(entry, "circuitId", ""), Get(entry, "remoteId", ""),
                 Get(entry, "sourceMacAddress", ""), Get(entry, "svlan", "0"),
                 Get(entry, "cvlan", "0"))

\* the ephemeral copy of an entry for one item of its services
ServiceEntry(entry, item) ==
    ("circuitId" :> Get(item, "circuitId", Get(entry, "circuitId", "")))
    @@ ("remoteId" :> Get(item, "remoteId", Get(entry, "remoteId", "")))
    @@ ("sourceMacAddress" :>
            Get(item, "sourceMacAddress", Get(entry, "sourceMacAddress", "")))
    @@ ("svlan" :> Get(item, "svlan", Get(entry, "svlan", "0")))
    @@ ("cvlan" :> Get(item, "cvlan", Get(entry, "cvlan", "0")))
    @@ ("shard" :> Get(item, "shard", Get(entry, "shard", "")))
    @@ ("requiredServiceGroups" :>
            Get(item, "requiredServiceGroups", Get(entry, "requiredServiceGroups", <<>>)))
    @@ ("requiredQuality" :>
            Get(item, "requiredQuality", Get(entry, "requiredQuality", 0)))
    @@ entry

\* the entries create_session_context is called with, in order, for one entry
ExpandEntry(entry) ==
    IF "name" \notin DOMAIN entry THEN <<>>
    ELSE IF Get(entry, "services", <<>>) # <<>>
    THEN [i \in 1..Len(entry["services"]) |-> ServiceEntry(entry, entry["services"][i])]
    ELSE <<entry>>

RECURSIVE ExpandAll(_)
ExpandAll(entries) ==
    IF entries = <<>> THEN <<>>
    ELSE ExpandEntry(Head(entries)) \o ExpandAll(Tail(entries))

\* params of create_session_context, as the record the UPSF stores
EntryCtx(c, entry) ==
    [rq |-> Get(entry, "requiredQuality", c.default_required_quality),
     rsg |-> Get(entry, "requiredServiceGroups",
                 split(c.default_required_service_groups)),
     shard |-> Get(entry, "shard", "")]

\* create_session_context(entry, shards): "exists", "no_shard" or "create"
CreateDecision_noLookup(sc, entry, shs) ==
    IF Get(entry, "shard", "") # "" /\ entry["shard"] \notin shs THEN "no_shard"
    ELSE "create"

CreateDecision_anyShard(sc, entry, shs) ==
    IF EntryHash(entry) \in DOMAIN sc THEN "exists" ELSE "create"

CreateDecision(sc, entry, shs) ==
    IF EntryHash(entry) \in DOMAIN sc THEN "exists"
    ELSE IF Get(entry, "shard", "") # "" /\ entry["shard"] \notin shs THEN "no_shard"
    ELSE "create"

\* ------------------------------------------------------------------ policy files
Entry1 == ("name" :> "u1") @@ ("circuitId" :> "a") @@ ("remoteId" :> "b")
Entry2 == ("name" :> "u2") @@ ("circuitId" :> "ab")
             @@ ("requiredServiceGroups" :> <<Basic>>) @@ ("requiredQuality" :> 7)
Entry3 == ("name" :> "u3") @@ ("circuitId" :> "k") @@ ("shard" :> "Y")
             @@ ("services" :> << ("remoteId" :> "r"),
                                  ("circuitId" :> "k") @@ ("shard" :> "") >>)
Entry4 == ("circuitId" :> "z")

Policies ==
    {NoFile,
     [exists |-> TRUE, empty |-> FALSE, sessionContexts |-> <<Entry1, Entry2>>],
     [exists |-> TRUE, empty |-> FALSE, sessionContexts |-> <<Entry4, Entry3>>]}

\* ------------------------------------------------------------------ Spec
CtxNames == {"c" \o ToString(i) : i \in 1..MaxCtx}

Init ==
    /\ sgups = ("A" :> [ssg |-> Ssg("A"), max |-> MaxCap - 1, alloc |-> 0])
               @@ ("B" :> [ssg |-> Ssg("B"), max |-> MaxCap - 1, alloc |-> 1])
    /\ shards = ("X" :> [sgup |-> "A", max |-> 1, alloc |-> 0])
    /\ sctxs = [n \in {} |-> 0]
    /\ cfg \in {[Defaults(1000, <<"b">>) EXCEPT !.config_file = f,
                                                 !.upsf_auto_register = f.exists] :
                   f \in {NoFile, [exists |-> TRUE, empty |-> FALSE,
                                   sessionContexts |-> <<Entry1, Entry2>>]}}
               \cup {Defaults(0, <<>>)}
    /\ stream = <<>>
    /\ pc = "initialize"
    /\ todo = {}
    /\ inv = NoInv(Upsf(shards, sgups, sctxs))
    /\ bumps = [n \in {} |-> 0]
    /\ extShard = 0
    /\ stop = FALSE /\ mainpc = "running"
    /\ racers = NoRacers /\ writes = FALSE
    /\ mpc = "off" /\ cycle = NoCycle
    /\ created = [n \in {} |-> 0]
    /\ fails = 0

\* --- other clients of the UPSF
\* a client creates a session context without desired shard
ClientCreatesContext ==
    /\ Cardinality(DOMAIN sctxs) < MaxCtx
    /\ \E n \in CtxNames \ DOMAIN sctxs, l \in {<<>>, <<Basic>>} :
          /\ sctxs' = Upd(sctxs, n, [rq |-> IF n = "c1" THEN 0 ELSE 500,
                                     rsg |-> l, shard |-> ""])
          /\ stream' = Append(stream, CtxEvent(CtxRecord(sctxs', n)))
    /\ UNCHANGED <<peers, writes, ctl, shards, sgups, cfg, pc, todo, inv, cycle, bumps, env, mat>>

\* a client creates shard Y on SGUP B, or rewrites a shard as it is
ClientWritesShard ==
    /\ extShard < MaxShardEvents
    /\ extShard' = extShard + 1
    /\ \E x \in ShardNames :
          /\ shards' = IF x \in DOMAIN shards THEN shards
                       ELSE Upd(shards, x, [sgup |-> "B", max |-> MaxCap, alloc |-> 0])
          /\ stream' = Append(stream, ShardEvent(x))
    /\ UNCHANGED <<peers, writes, ctl, sgups, sctxs, cfg, pc, todo, inv, cycle, bumps, fails, mat>>

\* --- create_default_items, run by initialize() and by upsf_register_task
CreateFails == {"none", "list_session_contexts", "create_session_context"}

\* the create_session_context(entry, shs) calls for the entries from the i-th
\* on; the k-th call raises UpsfError at `fail`.  acc: the session contexts,
\* the events emitted and the names created so far
RECURSIVE CreateLoop(_, _, _, _, _, _, _)
CreateLoop(c, entries, i, shs, k, fail, acc) ==
    IF i > Len(entries) THEN acc
    ELSE
    LET entry == entries[i]
        n == EntryHash(entry)
        d == CreateDecision(acc.sctxs, entry, shs)
        sc == Upd(acc.sctxs, n, EntryCtx(c, entry))
    IN  IF i = k /\ fail = "list_session_contexts"
        THEN [acc EXCEPT !.outcome = "UpsfError"]
        ELSE IF d # "create"
        THEN CreateLoop(c, entries, i + 1, shs, k, fail, acc)
        ELSE IF i = k /\ fail = "create_session_context"
        THEN [acc EXCEPT !.outcome = "UpsfError"]
        ELSE CreateLoop(c, entries, i + 1, shs, k, fail,
                        [acc EXCEPT !.sctxs = sc,
                                    !.events = Append(@, CtxEvent(CtxRecord(sc, n))),
                                    !.issued = Append(@, n)])

\* create_default_items(): the file, list_shards, then the entries in order
create_default_items(c, U, listFails, k, fail) ==
    LET none == [outcome |-> "returned", sctxs |-> U.sctxs, events |-> <<>>,
                 issued |-> <<>>]
    IN  IF ~c.config_file.exists \/ c.config_file.empty THEN none
        ELSE IF listFails THEN [none EXCEPT !.outcome = "UpsfError"]
        ELSE CreateLoop(c, ExpandAll(c.config_file.sessionContexts), 1,
                        DOMAIN U.shards, k, fail, none)

RECURSIVE Count(_, _)
Count(names, n) ==
    IF names = <<>> THEN 0
    ELSE (IF Head(names) = n THEN 1 ELSE 0) + Count(Tail(names), n)

\* the record of a create_default_items() call that ends with result r
CycleRecord(r) == [outcome |-> r.outcome, shards |-> DOMAIN shards,
                   before |-> sctxs, issued |-> r.issued]

\* one create_default_items() call that ends with result r
Materialize(r) ==
    /\ sctxs' = r.sctxs
    /\ stream' = stream \o r.events
    /\ created' = [n \in DOMAIN created \cup ToSet(r.issued) |->
                      Get(created, n, 0) + Count(r.issued, n)]
    /\ fails' = IF r.outcome = "UpsfError" THEN fails + 1 ELSE fails

\* where create_default_items can raise: list_shards, or a call of the k-th entry
CycleFails ==
    {<<FALSE, 0, "none">>} \cup
    IF fails < MaxFails
    THEN {<<TRUE, 0, "none">>} \cup
         {<<FALSE, k, f>> : k \in 1..Len(ExpandAll(cfg.config_file.sessionContexts)),
                            f \in CreateFails \ {"none"}}
    ELSE {}

\* initialize() up to map_all_sessions(): create_default_items(), then the
\* periodic thread is started.  record: keep the call in `cycle`
Startup(record) ==
    /\ pc = "initialize"
    /\ \E f \in CycleFails :
          LET r == create_default_items(cfg, Upsf(shards, sgups, sctxs), f[1], f[2], f[3])
          IN  /\ Materialize(r)
              /\ cycle' = IF record THEN CycleRecord(r) ELSE cycle
              /\ pc' = IF r.outcome = "UpsfError" THEN "crashed" ELSE "initial_mapping"
              /\ mpc' = IF r.outcome # "UpsfError" /\ cfg.upsf_auto_register
                        THEN "sleep" ELSE "off"
    /\ UNCHANGED <<peers, writes, ctl, shards, sgups, cfg, todo, inv, bumps, extShard>>

\* upsf_register_task: the sleep ends and create_default_items() runs; an
\* exception is suppressed
Periodic(record) ==
    /\ mpc = "sleep"
    /\ \E f \in CycleFails :
          LET r == create_default_items(cfg, Upsf(shards, sgups, sctxs), f[1], f[2], f[3])
          IN  /\ Materialize(r)
              /\ cycle' = IF record THEN CycleRecord(r) ELSE cycle
    /\ UNCHANGED <<peers, writes, ctl, shards, sgups, cfg, pc, todo, inv, bumps, extShard, mpc>>

StartupItems == Startup(FALSE)

PeriodicCycle == Periodic(FALSE)

\* --- map_all_sessions and run
ListedContexts == {CtxRecord(sctxs, n) : n \in DOMAIN sctxs}

\* initialize(): map_all_sessions() lists the session contexts
InitialMappingBegin ==
    /\ pc = "initial_mapping"
    /\ \E fail \in RaiseChoices :
          /\ fails' = IF fail THEN fails + 1 ELSE fails
          /\ IF fail THEN pc' = "crashed" /\ todo' = {}
             ELSE IF ListedContexts = {} THEN pc' = "subscribe" /\ todo' = {}
             ELSE pc' = "initial_mapping_loop" /\ todo' = ListedContexts
    /\ UNCHANGED <<peers, writes, ctl, upsf, stream, cfg, inv, cycle, bumps, extShard, mat>>

\* run(): "if self._stop_thread.is_set(): break" after an item, then the
\* condition of the while loop
AfterItem == IF stop THEN "ended" ELSE "watch"

\* one map_session(sctx) of a map_all_sessions() loop; ValueError is not
\* caught by map_session: it ends initialize(), or the watch in run().
\* record: keep the invocation in `inv`
MapAll(record) ==
    /\ pc \in {"initial_mapping_loop", "watch_mapping_loop"}
    /\ \E sctx \in todo, fail \in FailChoices :
       \E r \in map_session(cfg, Upsf(shards, sgups, sctxs), sctx, fail) :
          /\ Invoke(sctx, fail, r)
          /\ inv' = IF record THEN Invocation(sctx, fail, r) ELSE inv
          /\ writes' = Wrote(record, r)
          /\ stream' = stream \o r.events
          /\ IF r.outcome = "ValueError"
             THEN /\ todo' = {}
                  /\ pc' = IF pc = "initial_mapping_loop" THEN "crashed" ELSE "subscribe"
             ELSE /\ todo' = todo \ {sctx}
                  /\ pc' = IF todo' # {} THEN pc
                           ELSE IF pc = "initial_mapping_loop" THEN "subscribe"
                           ELSE AfterItem
    /\ UNCHANGED <<peers, ctl, cfg, cycle, extShard, mat>>

MapAllStep == MapAll(FALSE)

\* run(): a new UPSF subscriber and its read(watch=True); the events emitted
\* before it may (keep) or may not be delivered to the new subscriber
SubscribeWith(keeps) ==
    /\ pc = "subscribe"
    /\ ~stop
    /\ \E fail \in RaiseChoices, keep \in keeps :
          /\ fails' = IF fail THEN fails + 1 ELSE fails
          /\ pc' = IF fail THEN "subscribe" ELSE "watch"
          /\ stream' = IF keep THEN stream ELSE <<>>
    /\ UNCHANGED <<peers, writes, ctl, upsf, cfg, todo, inv, cycle, bumps, extShard, mat>>

Subscribe == SubscribeWith(BOOLEAN)

\* run(): the branch taken for an item of the watch stream
Dispatch_contextFirst(item) ==
    IF item.sctx.name # "" THEN "session_context"
    ELSE IF item.shard # "" THEN "shard"
    ELSE "none"

Dispatch(item) ==
    IF item.shard # "" THEN "shard"
    ELSE IF item.sctx.name # "" THEN "session_context"
    ELSE "none"

\* run(): an item with a shard name: map_all_sessions()
ShardEventHandler ==
    /\ pc = "watch"
    /\ stream # <<>>
    /\ Dispatch(Head(stream)) = "shard"
    /\ stream' = Tail(stream)
    /\ \E fail \in RaiseChoices :
          /\ fails' = IF fail THEN fails + 1 ELSE fails
          /\ IF fail \/ ListedContexts = {} THEN pc' = AfterItem /\ todo' = {}
             ELSE pc' = "watch_mapping_loop" /\ todo' = ListedContexts
    /\ UNCHANGED <<peers, writes, ctl, upsf, cfg, inv, cycle, bumps, extShard, mat>>

\* run(): an item with a session context name and no shard name:
\* map_session(item.session_context).  record: keep the invocation in `inv`
ContextEvent(record) ==
    /\ pc = "watch"
    /\ stream # <<>>
    /\ Dispatch(Head(stream)) = "session_context"
    /\ \E fail \in FailChoices :
       \E r \in map_session(cfg, Upsf(shards, sgups, sctxs), Head(stream).sctx, fail) :
          /\ Invoke(Head(stream).sctx, fail, r)
          /\ inv' = IF record THEN Invocation(Head(stream).sctx, fail, r) ELSE inv
          /\ writes' = Wrote(record, r)
          /\ stream' = Tail(stream) \o r.events
          /\ pc' = IF r.outcome = "ValueError" THEN "subscribe" ELSE AfterItem
    /\ UNCHANGED <<peers, ctl, cfg, todo, cycle, extShard, mat>>

ContextEventHandler == ContextEvent(FALSE)

\* run(): an item with neither name: no branch is taken
OtherEventHandler ==
    /\ pc = "watch"
    /\ stream # <<>>
    /\ Dispatch(Head(stream)) = "none"
    /\ stream' = Tail(stream)
    /\ pc' = AfterItem
    /\ UNCHANGED <<peers, writes, ctl, upsf, cfg, todo, inv, cycle, bumps, env, mat>>

Next ==
    \/ ClientCreatesContext
    \/ ClientWritesShard
    \/ StartupItems
    \/ PeriodicCycle
    \/ InitialMappingBegin
    \/ MapAllStep
    \/ Subscribe
    \/ ShardEventHandler
    \/ ContextEventHandler

Spec == Init /\ [][Next]_vars

\* ------------------------------------------------------------------ MatSpec
\* create_default_items alone: the startup call, the periodic calls and the
\* shards other clients create, over the policy files
MatInit ==
    /\ sgups = ("A" :> [ssg |-> Ssg("A"), max |-> MaxCap, alloc |-> 0])
               @@ ("B" :> [ssg |-> Ssg("B"), max |-> MaxCap, alloc |-> 0])
    /\ shards \in {t \in ShardTablesOk(FreeCaps) : "X" \in DOMAIN t /\ t["X"].sgup = "A"}
    /\ sctxs = [n \in {} |-> 0]
    /\ cfg \in {[Defaults(d[1], d[2]) EXCEPT !.config_file = f,
                                              !.upsf_auto_register = a] :
                   d \in {<<1000, <<"b">> >>, <<0, <<>> >>},
                   f \in Policies, a \in BOOLEAN}
    /\ stream = <<>>
    /\ pc = "initialize"
    /\ todo = {}
    /\ inv = NoInv(Upsf(shards, sgups, sctxs))
    /\ bumps = [n \in {} |-> 0]
    /\ extShard = 0
    /\ stop = FALSE /\ mainpc = "running"
    /\ racers = NoRacers /\ writes = FALSE
    /\ mpc = "off" /\ cycle = NoCycle
    /\ created = [n \in {} |-> 0]
    /\ fails = 0

MatStartup == Startup(TRUE)

MatPeriodic == Periodic(TRUE)

MatNext ==
    \/ MatStartup
    \/ MatPeriodic
    \/ ClientWritesShard

MatSpec == MatInit /\ [][MatNext]_vars

\* ------------------------------------------------------------------ LiveSpec
\* the manager when no UPSF call fails and every watch event is delivered:
\* the thread of initialize() and run() keeps taking its steps
LiveInit ==
    /\ \E t \in {<<0, MaxCap, {}>>, <<MaxCap - 1, 1, {"Y"}>>} :
          /\ sgups = ("A" :> [ssg |-> Ssg("A"), max |-> MaxCap, alloc |-> 0])
                     @@ ("B" :> [ssg |-> Ssg("B"), max |-> MaxCap, alloc |-> t[1]])
          /\ shards = [x \in {"X"} \cup t[3] |->
                          IF x = "X" THEN [sgup |-> "A", max |-> t[2], alloc |-> 0]
                          ELSE [sgup |-> "B", max |-> MaxCap, alloc |-> 0]]
    /\ sctxs = [n \in {} |-> 0]
    /\ cfg \in {Defaults(1000, <<"b">>), Defaults(0, <<>>)}
    /\ stream = <<>>
    /\ pc = "initialize"
    /\ todo = {}
    /\ inv = NoInv(Upsf(shards, sgups, sctxs))
    /\ bumps = [n \in {} |-> 0]
    /\ extShard = 0
    /\ stop = FALSE /\ mainpc = "running"
    /\ racers = NoRacers /\ writes = FALSE
    /\ mpc = "off" /\ cycle = NoCycle
    /\ created = [n \in {} |-> 0]
    /\ fails = MaxFails

LiveSubscribe == SubscribeWith({TRUE})

LiveNext ==
    \/ ClientCreatesContext
    \/ ClientWritesShard
    \/ StartupItems
    \/ InitialMappingBegin
    \/ MapAllStep
    \/ LiveSubscribe
    \/ ShardEventHandler
    \/ ContextEventHandler

LiveSpec ==
    /\ LiveInit
    /\ [][LiveNext]_vars
    /\ WF_vars(StartupItems)
    /\ WF_vars(InitialMappingBegin)
    /\ WF_vars(MapAllStep)
    /\ WF_vars(LiveSubscribe)
    /\ WF_vars(ShardEventHandler)
    /\ WF_vars(ContextEventHandler)

\* ------------------------------------------------------------------ WatchSpec
\* the initial mapping and the watch loop over a stream of arbitrary items,
\* with every invocation of map_session kept in `inv`
WatchCtxs(a) ==
    ("c1" :> [rq |-> 500, rsg |-> <<Basic>>, shard |-> IF a = 1 THEN "X" ELSE ""])
    @@ ("c2" :> [rq |-> 500, rsg |-> <<Basic>>, shard |-> ""])

\* items of the stream: shard, session context, both, neither
WatchItems(sc) ==
    {ShardEvent("X"), CtxEvent(CtxRecord(sc, "c1")), CtxEvent(CtxRecord(sc, "c2")),
     [shard |-> "X", sctx |-> CtxRecord(sc, "c2")], [shard |-> "", sctx |-> NoCtx]}

WatchInit ==
    /\ \E a \in {0, 1} :
          /\ sgups = ("A" :> [ssg |-> Ssg("A"), max |-> MaxCap, alloc |-> a])
                     @@ ("B" :> [ssg |-> Ssg("B"), max |-> MaxCap, alloc |-> MaxCap - 1])
          /\ shards = ("X" :> [sgup |-> "A", max |-> 1, alloc |-> a])
                      @@ ("Y" :> [sgup |-> "B", max |-> MaxCap, alloc |-> 0])
          /\ sctxs = WatchCtxs(a)
    /\ stream \in UNION {[1..k -> WatchItems(sctxs)] : k \in 1..MaxItems}
    /\ cfg = Defaults(1000, <<"b">>)
    /\ pc \in {"initial_mapping", "watch"}
    /\ todo = {}
    /\ inv = NoInv(Upsf(shards, sgups, sctxs))
    /\ bumps = [n \in {} |-> 0]
    /\ extShard = 0
    /\ stop = FALSE /\ mainpc = "running"
    /\ racers = NoRacers /\ writes = FALSE
    /\ mpc = "off" /\ cycle = NoCycle
    /\ created = [n \in {} |-> 0]
    /\ fails = 0

MapAllInvocation == MapAll(TRUE)

ContextEventInvocation == ContextEvent(TRUE)

WatchNext ==
    \/ InitialMappingBegin
    \/ MapAllInvocation
    \/ Subscribe
    \/ ShardEventHandler
    \/ ContextEventInvocation
    \/ OtherEventHandler

WatchSpec == WatchInit /\ [][WatchNext]_vars

\* ------------------------------------------------------------------ StopSpec
\* the started manager with the stop signal and the interrupt of main():
\* no UPSF call fails, every watch event is delivered
StopInit ==
    /\ sgups = ("A" :> [ssg |-> Ssg("A"), max |-> MaxCap, alloc |-> 0])
               @@ ("B" :> [ssg |-> Ssg("B"), max |-> MaxCap, alloc |-> 0])
    /\ shards = ("X" :> [sgup |-> "A", max |-> MaxCap, alloc |-> 0])
    /\ sctxs = [n \in {} |-> 0]
    /\ stream = <<>>
    /\ cfg = Defaults(1000, <<"b">>)
    /\ pc = "subscribe"
    /\ todo = {}
    /\ inv = NoInv(Upsf(shards, sgups, sctxs))
    /\ bumps = [n \in {} |-> 0]
    /\ extShard = 0
    /\ stop = FALSE /\ mainpc = "running"
    /\ racers = NoRacers /\ writes = FALSE
    /\ mpc = "off" /\ cycle = NoCycle
    /\ created = [n \in {} |-> 0]
    /\ fails = MaxFails

\* stop(): the stop signal is set (the caller then joins the thread)
StopCalled ==
    /\ pc \in {"subscribe", "watch", "watch_mapping_loop"}
    /\ ~stop
    /\ stop' = TRUE
    /\ UNCHANGED <<upsf, stream, cfg, pc, todo, inv, cycle, bumps, env, peers, writes, mat, mainpc>>

\* run(): the condition of the while loop finds the stop signal set
ReconcilerEnds ==
    /\ pc = "subscribe"
    /\ stop
    /\ pc' = "ended"
    /\ UNCHANGED <<peers, writes, ctl, upsf, stream, cfg, todo, inv, cycle, bumps, env, mat>>

\* main(): KeyboardInterrupt during time.sleep(1): break, and main returns
Interrupt ==
    /\ mainpc = "running"
    /\ mainpc' = "interrupted"
    /\ UNCHANGED <<upsf, stream, cfg, pc, todo, inv, cycle, bumps, env, peers, writes, mat, stop>>

\* the interpreter exits once the thread of the manager, which is not a
\* daemon thread, has ended
ProcessExit ==
    /\ mainpc = "interrupted"
    /\ pc = "ended"
    /\ mainpc' = "exited"
    /\ UNCHANGED <<upsf, stream, cfg, pc, todo, inv, cycle, bumps, env, peers, writes, mat, stop>>

StopNext ==
    \/ ClientCreatesContext
    \/ ClientWritesShard
    \/ LiveSubscribe
    \/ ShardEventHandler
    \/ MapAllStep
    \/ ContextEventHandler
    \/ StopCalled
    \/ ReconcilerEnds
    \/ Interrupt
    \/ ProcessExit

StopSpec ==
    /\ StopInit
    /\ [][StopNext]_vars
    /\ WF_vars(LiveSubscribe)
    /\ WF_vars(ShardEventHandler)
    /\ WF_vars(MapAllStep)
    /\ WF_vars(ContextEventHandler)
    /\ WF_vars(ReconcilerEnds)
    /\ WF_vars(ProcessExit)

\* ------------------------------------------------------------------ RaceSpec
\* one invocation of map_session while another client of the UPSF writes the
\* counters between the lists and the point reads
RaceInit ==
    /\ \E a \in 0..1 :
          /\ sgups = ("A" :> [ssg |-> Ssg("A"), max |-> MaxCap, alloc |-> a])
                     @@ ("B" :> [ssg |-> Ssg("B"), max |-> MaxCap, alloc |-> MaxCap - 1])
          /\ shards \in {("X" :> [sgup |-> "A", max |-> MaxCap, alloc |-> a])
                            @@ ("Y" :> [sgup |-> "B", max |-> MaxCap, alloc |-> y]) :
                         y \in 0..1}
    /\ sctxs \in {("c1" :> [rq |-> q, rsg |-> <<Basic>>, shard |-> x]) :
                     q \in {0, 500}, x \in {"", "X"}}
    /\ stream = <<>>
    /\ cfg = Defaults(1000, <<"b">>)
    /\ pc = "call"
    /\ todo = {}
    /\ inv = NoInv(Upsf(shards, sgups, sctxs))
    /\ bumps = [n \in {} |-> 0]
    /\ extShard = 0
    /\ stop = FALSE /\ mainpc = "running"
    /\ racers = NoRacers /\ writes = FALSE
    /\ mpc = "off" /\ cycle = NoCycle
    /\ created = [n \in {} |-> 0]
    /\ fails = 0

\* map_session(sctx): list_shards() and list_service_gateway_user_planes()
RaceList ==
    /\ pc = "call"
    /\ pc' = "listed"
    /\ inv' = [NoInv(Upsf(shards, sgups, sctxs)) EXCEPT !.sctx = CtxRecord(sctxs, "c1")]
    /\ UNCHANGED <<peers, writes, ctl, upsf, stream, cfg, todo, cycle, bumps, env, mat>>

\* another client writes the counter of a shard or of an SGUP
OtherWriter ==
    /\ pc = "listed"
    /\ extShard < MaxShardEvents
    /\ extShard' = extShard + 1
    /\ \/ \E x \in DOMAIN shards, v \in 0..MaxCap :
             /\ v # shards[x].alloc /\ v <= shards[x].max
             /\ shards' = [shards EXCEPT ![x].alloc = v]
             /\ stream' = Append(stream, ShardEvent(x))
             /\ UNCHANGED sgups
       \/ \E g \in DOMAIN sgups, v \in 0..MaxCap :
             /\ v # sgups[g].alloc /\ v <= sgups[g].max
             /\ sgups' = [sgups EXCEPT ![g].alloc = v]
             /\ UNCHANGED <<shards, stream>>
    /\ UNCHANGED <<peers, writes, ctl, sctxs, cfg, pc, todo, inv, cycle, bumps, fails, mat>>

\* map_session(sctx): everything after the lists; `inv` keeps the lists too
RaceFinish ==
    /\ pc = "listed"
    /\ pc' = "called"
    /\ \E fail \in FailChoices \ {"list_shards", "list_service_gateway_user_planes"} :
       \E r \in map_session_from(cfg, inv.pre, Upsf(shards, sgups, sctxs), inv.sctx, fail) :
          /\ Invoke(inv.sctx, fail, r)
          /\ inv' = Invocation(inv.sctx, fail, r) @@ [listed |-> inv.pre]
          /\ stream' = stream \o r.events
    /\ UNCHANGED <<peers, writes, ctl, cfg, todo, cycle, extShard, mat>>

RaceNext ==
    \/ RaceList
    \/ OtherWriter
    \/ RaceFinish

RaceSpec == RaceInit /\ [][RaceNext]_vars

\* ------------------------------------------------------------------ claims on one invocation
Calls(op) == {inv.calls[i] : i \in {j \in 1..Len(inv.calls) : inv.calls[j].op = op}}

\* the update_session_context calls of the last invocation that carry desired_shard
ShardWrites == {c \in Calls("update_session_context") : "desired_shard" \in DOMAIN c.params}

\* SGUPs of a registry that host a shard, support every group of the list and
\* are below their maximum
Eligible(U, groups) ==
    {g \in DOMAIN U.sgups :
        /\ \E x \in DOMAIN U.shards : U.shards[x].sgup = g
        /\ ToSet(groups) \subseteq U.sgups[g].ssg
        /\ U.sgups[g].alloc < U.sgups[g].max}

\* shards of a registry on SGUP g with max > 0 and below their maximum
Usable(U, g) ==
    {x \in DOMAIN U.shards :
        /\ U.shards[x].sgup = g
        /\ U.shards[x].max > 0
        /\ U.shards[x].alloc < U.shards[x].max}

\* C2: whenever map_session writes desired_shard := X, X.desired_sgup names
\* the SGUP whose counter the invocation writes, that SGUP supports every
\* required service group of the context, and no SGUP that hosts no shard has
\* its counter written.
C2_ShardOnCapableSgup ==
    /\ \A c \in ShardWrites :
          /\ c.params["desired_shard"] \in DOMAIN inv.pre.shards
          /\ \E w \in Calls("update_service_gateway_user_plane") :
                /\ w.name = inv.pre.shards[c.params["desired_shard"]].sgup
                /\ w.name \in DOMAIN inv.pre.sgups
                /\ ToSet(inv.sctx.rsg) \subseteq inv.pre.sgups[w.name].ssg
    /\ \A w \in Calls("update_service_gateway_user_plane") :
          \E x \in DOMAIN inv.pre.shards : inv.pre.shards[x].sgup = w.name

\* a shard was written for a context that needs "p" while an SGUP without "p"
\* hosts a shard and has room, and another SGUP hosts no shard at all
C2_Witness ==
    /\ ShardWrites # {}
    /\ Premium \in ToSet(inv.sctx.rsg)
    /\ \E h \in DOMAIN inv.pre.sgups :
          /\ Premium \notin inv.pre.sgups[h].ssg
          /\ inv.pre.sgups[h].alloc < inv.pre.sgups[h].max
          /\ \E x \in DOMAIN inv.pre.shards : inv.pre.shards[x].sgup = h

\* C3: an invocation that sets desired_shard := X (X on SGUP G) and ends
\* without UpsfError leaves X's and G's allocated_session_count one higher
\* and every other shard, SGUP and session context as it was.
C3_ExactlyOneBump ==
    \A c \in ShardWrites :
        LET X == c.params["desired_shard"]
            G == inv.pre.shards[X].sgup
        IN  inv.outcome = "returned" =>
            /\ shards[X] = [inv.pre.shards[X] EXCEPT !.alloc = @ + 1]
            /\ sgups[G] = [inv.pre.sgups[G] EXCEPT !.alloc = @ + 1]
            /\ DOMAIN shards = DOMAIN inv.pre.shards
            /\ DOMAIN sgups = DOMAIN inv.pre.sgups
            /\ DOMAIN sctxs = DOMAIN inv.pre.sctxs
            /\ \A y \in DOMAIN shards \ {X} : shards[y] = inv.pre.shards[y]
            /\ \A h \in DOMAIN sgups \ {G} : sgups[h] = inv.pre.sgups[h]
            /\ \A n \in DOMAIN sctxs \ {c.name} : sctxs[n] = inv.pre.sctxs[n]

\* a shard was assigned while its SGUP hosts a second shard and a second
\* SGUP and a second session context exist
C3_Witness ==
    /\ inv.outcome = "returned"
    /\ \E c \in ShardWrites :
          /\ \E y \in DOMAIN shards \ {c.params["desired_shard"]} :
                shards[y].sgup = shards[c.params["desired_shard"]].sgup
          /\ Cardinality(DOMAIN sgups) = 2
          /\ DOMAIN sctxs \ {c.name} # {}

\* C4 as stated: with no shards, no SGUPs or no eligible SGUP the invocation
\* issues no UPSF write at all.
C4_Original ==
    (/\ pc = "called"
     /\ \/ DOMAIN inv.pre.shards = {}
        \/ DOMAIN inv.pre.sgups = {}
        \/ Eligible(inv.pre, inv.sctx.rsg) = {})
    => inv.calls = <<>>

\* C4 amended: with no shards or no SGUPs, or with no eligible SGUP for a
\* context that lacks desired_shard and has a non-empty required_service_groups,
\* the invocation issues no UPSF write at all.
C4_NoWriteWhenInfeasible ==
    (/\ pc = "called"
     /\ \/ DOMAIN inv.pre.shards = {}
        \/ DOMAIN inv.pre.sgups = {}
        \/ /\ inv.sctx.shard = ""
           /\ inv.sctx.rsg \notin {<<>>, << <<>> >>}
           /\ Eligible(inv.pre, inv.sctx.rsg) = {})
    => inv.calls = <<>>

\* every hosting and capable SGUP is full, the context lacks a shard and a
\* required quality: the pending default is not written
C4_Witness ==
    /\ pc = "called"
    /\ inv.outcome = "returned"
    /\ inv.sctx.shard = "" /\ inv.sctx.rsg = <<Basic>> /\ inv.sctx.rq = 0
    /\ DOMAIN inv.pre.shards # {}
    /\ \E g \in DOMAIN inv.pre.sgups :
          /\ inv.pre.sgups[g].max > 0
          /\ \E x \in DOMAIN inv.pre.shards : inv.pre.shards[x].sgup = g
    /\ Eligible(inv.pre, inv.sctx.rsg) = {}
    /\ inv.calls = <<>>

\* C6: the selected SGUP is eligible and no eligible SGUP of the snapshot has
\* a smaller load: G.alloc * H.max <= H.alloc * G.max for every eligible H.
C6_LeastLoadedSgup ==
    inv.sgup # "" =>
        /\ inv.sgup \in Eligible(inv.pre, inv.sctx.rsg)
        /\ \A h \in Eligible(inv.pre, inv.sctx.rsg) :
              inv.pre.sgups[inv.sgup].alloc * inv.pre.sgups[h].max
                  <= inv.pre.sgups[h].alloc * inv.pre.sgups[inv.sgup].max

\* an SGUP was selected over an eligible one of greater load that has no more
\* sessions allocated
C6_Witness ==
    /\ inv.sgup # ""
    /\ \E h \in Eligible(inv.pre, inv.sctx.rsg) :
          /\ inv.pre.sgups[inv.sgup].alloc * inv.pre.sgups[h].max
                 < inv.pre.sgups[h].alloc * inv.pre.sgups[inv.sgup].max
          /\ inv.pre.sgups[h].alloc <= inv.pre.sgups[inv.sgup].alloc

\* C7: the selected shard is on the selected SGUP, has max > 0 and is below
\* its maximum, and no such shard of that SGUP has a smaller load; a shard that
\* is full or has max = 0 is never written as desired_shard.
C7_LeastLoadedShard ==
    /\ inv.shard # "" =>
          /\ inv.shard \in Usable(inv.pre, inv.sgup)
          /\ \A y \in Usable(inv.pre, inv.sgup) :
                inv.pre.shards[inv.shard].alloc * inv.pre.shards[y].max
                    <= inv.pre.shards[y].alloc * inv.pre.shards[inv.shard].max
    /\ \A c \in ShardWrites :
          /\ c.params["desired_shard"] = inv.shard
          /\ inv.pre.shards[inv.shard].max > 0
          /\ inv.pre.shards[inv.shard].alloc < inv.pre.shards[inv.shard].max

\* a shard was assigned while the same SGUP has a usable shard of greater load
\* with no more sessions allocated
C7_Witness ==
    /\ ShardWrites # {}
    /\ \E y \in Usable(inv.pre, inv.sgup) :
          /\ inv.pre.shards[inv.shard].alloc * inv.pre.shards[y].max
                 < inv.pre.shards[y].alloc * inv.pre.shards[inv.shard].max
          /\ inv.pre.shards[y].alloc <= inv.pre.shards[inv.shard].alloc

\* ------------------------------------------------------------------ claims on the running manager
\* C1 as stated: once a session context has a non-empty desired_shard, no
\* step changes that desired_shard and no further counter bump is made on the
\* context's behalf.
C1_PlacedOnce ==
    [][\A n \in DOMAIN sctxs :
          sctxs[n].shard # "" =>
             /\ sctxs'[n].shard = sctxs[n].shard
             /\ Get(bumps', n, 0) = Get(bumps, n, 0)]_vars

\* C5: allocated_session_count <= max_session_count for every shard and SGUP.
C5_WithinMax ==
    /\ \A x \in DOMAIN shards : shards[x].alloc <= shards[x].max
    /\ \A g \in DOMAIN sgups : sgups[g].alloc <= sgups[g].max

\* the manager has filled a shard and an SGUP up to their maximum
C5_Witness ==
    /\ \E n \in DOMAIN bumps : bumps[n] > 0
    /\ \E x \in DOMAIN shards : shards[x].max > 0 /\ shards[x].alloc = shards[x].max
    /\ \E g \in DOMAIN sgups : sgups[g].alloc = sgups[g].max

\* C9 as stated: a non-empty required_quality, required_service_groups or
\* desired_shard of a session context in the UPSF is never overwritten.
C9_NeverDemotes ==
    [][\A n \in DOMAIN sctxs :
          /\ sctxs[n].rq # 0 => sctxs'[n].rq = sctxs[n].rq
          /\ sctxs[n].rsg \notin {<<>>, << <<>> >>} => sctxs'[n].rsg = sctxs[n].rsg
          /\ sctxs[n].shard # "" => sctxs'[n].shard = sctxs[n].shard]_vars

\* ------------------------------------------------------------------ claims on create_default_items
\* the entries create_session_context is called with, and their names
PolicyEntries == ToSet(ExpandAll(cfg.config_file.sessionContexts))
Fingerprints == {EntryHash(e) : e \in PolicyEntries}

\* C8 as stated: once a create_default_items cycle has completed,
\* create_session_context has been issued exactly once for every fingerprint
\* derived from the policy entries.
C8_Original ==
    cycle.outcome = "returned" =>
        \A n \in Fingerprints : Get(created, n, 0) = 1

\* C8 amended: a session context is created at most once per fingerprint; a
\* cycle creates nothing whose fingerprint was present and changes no session
\* context that was present; a cycle that completes leaves exactly one
\* creation of every fingerprint that has an entry naming no shard or a shard
\* of the cycle's shard list.
C8_CreatedOnce ==
    /\ \A n \in DOMAIN created : created[n] <= 1 /\ n \in DOMAIN sctxs
    /\ \A i \in 1..Len(cycle.issued) :
          /\ cycle.issued[i] \notin DOMAIN cycle.before
          /\ \A j \in 1..Len(cycle.issued) : cycle.issued[i] = cycle.issued[j] => i = j
    /\ \A n \in DOMAIN cycle.before : sctxs[n] = cycle.before[n]
    /\ cycle.outcome = "returned" =>
          \A e \in PolicyEntries :
              Get(e, "shard", "") \in {""} \cup cycle.shards =>
                  /\ EntryHash(e) \in DOMAIN sctxs
                  /\ Get(created, EntryHash(e), 0) = 1

\* a cycle completed that found every fingerprint of the policy present
\* and created nothing, for a policy with two entries of one fingerprint
C8_Witness ==
    /\ cycle.outcome = "returned"
    /\ cycle.issued = <<>>
    /\ Fingerprints # {}
    /\ Fingerprints \subseteq DOMAIN cycle.before
    /\ Cardinality(Fingerprints) < Len(ExpandAll(cfg.config_file.sessionContexts))
    /\ \A n \in Fingerprints : created[n] = 1

\* ------------------------------------------------------------------ claims on liveness
\* the session contexts without desired shard
Unplaced == {n \in DOMAIN sctxs : sctxs[n].shard = ""}

\* the record of n once the defaults are filled in
Filled(n) == [CtxRecord(sctxs, n) EXCEPT
                 !.rsg = IF UnsetGroups(@) THEN DefaultGroups(cfg) ELSE @]

\* an SGUP that supports the groups of n and a shard on it, both below max
PairExists(n) ==
    \E g \in DOMAIN sgups, x \in DOMAIN shards :
        /\ shards[x].sgup = g
        /\ ToSet(Filled(n).rsg) \subseteq sgups[g].ssg
        /\ sgups[g].alloc < sgups[g].max
        /\ shards[x].alloc < shards[x].max

\* every SGUP of least load among the candidates of n has a shard below max
NoDeadEnd(n) ==
    \A g \in Least(SgupLoad(shards, sgups, Filled(n)), sgups) :
        ShardLoad(shards, g) # {}

C11_Original ==
    [][(pc # "crashed" /\ pc' = "crashed") => fails' = fails]_vars

\* ------------------------------------------------------------------ claims on the watch loop
\* the item run() is about to handle
Item == Head(stream)

\* the step handles an item of the stream
HandlesItem == pc = "watch" /\ stream # <<>> /\ stream' # stream

\* C12 as stated: for an item with a shard name, map_session runs for every
\* listed session context (the loop over them is left only after the last one)
\* and not for the item's session context; otherwise, for an item with a
\* session context name, map_session runs for exactly that one; otherwise
\* no placement runs.
C12_Original ==
    [][ /\ (HandlesItem /\ Item.shard # "") =>
              /\ upsf' = upsf /\ inv' = inv
              /\ fails' = fails => todo' = ListedContexts
        /\ (HandlesItem /\ Item.shard = "" /\ Item.sctx.name # "") =>
              /\ inv'.sctx = Item.sctx
              /\ todo' = {} /\ pc' # "watch_mapping_loop"
        /\ (HandlesItem /\ Item.shard = "" /\ Item.sctx.name = "") =>
              upsf' = upsf /\ inv' = inv /\ todo' = {} /\ pc' = "watch"
        /\ (pc = "watch_mapping_loop" /\ pc' # pc) =>
              /\ inv'.sctx \in todo
              /\ todo = {inv'.sctx}
      ]_vars

\* C12, the choice of the branch alone: a shard name starts the loop over the
\* listed session contexts and runs nothing for the item's session context,
\* else a session context name runs map_session for that record only, else
\* nothing runs; every step of the loop maps one of the listed records.
C12_Dispatch ==
    [][ /\ (HandlesItem /\ Item.shard # "") =>
              /\ upsf' = upsf /\ inv' = inv
              /\ fails' = fails => todo' = ListedContexts
        /\ (HandlesItem /\ Item.shard = "" /\ Item.sctx.name # "") =>
              /\ inv'.sctx = Item.sctx
              /\ todo' = {} /\ pc' # "watch_mapping_loop"
        /\ (HandlesItem /\ Item.shard = "" /\ Item.sctx.name = "") =>
              upsf' = upsf /\ inv' = inv /\ todo' = {} /\ pc' = "watch"
        /\ (pc = "watch_mapping_loop" /\ todo' # todo) =>
              /\ inv'.sctx \in todo
              /\ inv'.outcome # "ValueError" => todo' = todo \ {inv'.sctx}
      ]_vars

\* ------------------------------------------------------------------ claims on shutdown
\* C13 as stated: once the stop signal is set the reconciler eventually
\* terminates, whether or not a further watch event or stream failure arrives.
C13_Original == stop ~> (pc = "ended")

\* C14 as stated: after an interrupt of main() the stop signal is eventually
\* set, and the process ends only after the thread of the reconciler has ended.
C14_Original ==
    /\ (mainpc = "interrupted") ~> stop
    /\ [](mainpc = "exited" => pc = "ended")

\* ------------------------------------------------------------------ claims on the counters under a race
\* the value an update call of the finished invocation wrote
Written(op, name) ==
    {c.params["allocated_session_count"] : c \in {d \in Calls(op) : d.name = name}}

\* C16 as stated: the value written to the chosen shard is its
\* allocated_session_count in the list read at the start of the invocation
\* plus 1, the value written to the chosen SGUP is the one of a fresh read
\* of the SGUP plus 1.
C16_Original ==
    pc = "called" =>
        /\ \A x \in DOMAIN shards :
              Written("update_shard", x) \subseteq {inv.listed.shards[x].alloc + 1}
        /\ \A g \in DOMAIN sgups :
              Written("update_service_gateway_user_plane", g)
                  \subseteq {inv.pre.sgups[g].alloc + 1}

\* C16 amended: both values are the ones of a fresh read plus 1: the
\* allocated_session_count the shard, and the SGUP, have in the UPSF when the
\* invocation reads them after the lists.
C16_FreshReads ==
    pc = "called" =>
        /\ \A x \in DOMAIN shards :
              Written("update_shard", x) \subseteq {inv.pre.shards[x].alloc + 1}
        /\ \A g \in DOMAIN sgups :
              Written("update_service_gateway_user_plane", g)
                  \subseteq {inv.pre.sgups[g].alloc + 1}

\* the counter of the chosen shard was changed by another client after the
\* lists, the counter of its SGUP too, and both were then written
C16_Witness ==
    /\ pc = "called"
    /\ \E x \in DOMAIN shards :
          /\ Written("update_shard", x) # {}
          /\ inv.listed.shards[x].alloc # inv.pre.shards[x].alloc
    /\ \E x \in DOMAIN shards :
          /\ Written("update_shard", x) # {}
          /\ Written("update_service_gateway_user_plane", shards[x].sgup) # {}

\* ------------------------------------------------------------------ claims on the order of the writes
\* positions of the calls of the last invocation with operation op
At(op) == {i \in 1..Len(inv.calls) : inv.calls[i].op = op}

\* C15: in one invocation update_shard comes first, the read and the update of
\* the SGUP come after it, and the one update_session_context that carries
\* desired_shard comes last; when the session context has been given the
\* shard in the UPSF, both counters have been written.
C15_WriteOrder ==
    pc = "called" =>
        /\ At("update_shard") \subseteq {1}
        /\ At("update_service_gateway_user_plane") \subseteq {2}
        /\ At("update_service_gateway_user_plane") # {} => At("update_shard") # {}
        /\ At("update_session_context") \subseteq {Len(inv.calls)}
        /\ ShardWrites # {} =>
              /\ Len(inv.calls) = 3
              /\ At("update_shard") = {1}
              /\ At("update_service_gateway_user_plane") = {2}
        /\ (inv.fail \in {"get_service_gateway_user_plane",
                          "update_service_gateway_user_plane"}
            /\ inv.outcome = "UpsfError") =>
              At("update_shard") = {1} /\ Len(inv.calls) = 1
        /\ \A n \in DOMAIN sctxs :
              sctxs[n].shard # inv.pre.sctxs[n].shard =>
                 /\ shards[sctxs[n].shard].alloc = inv.pre.shards[sctxs[n].shard].alloc + 1
                 /\ sgups[inv.sgup].alloc = inv.pre.sgups[inv.sgup].alloc + 1

\* one invocation wrote the shard, then the SGUP, then the session context
\* with desired_shard and a default
C15_Witness ==
    /\ pc = "called"
    /\ Len(inv.calls) = 3
    /\ ShardWrites # {}
    /\ \E c \in ShardWrites : "required_quality" \in DOMAIN c.params

\* ------------------------------------------------------------------ the watch loop on its own writes
\* run() with a fixed set of shards, SGUPs and session contexts, no other
\* client and no UpsfError: the only events are those of the session
\* contexts as they are at the start and those of the writes of map_session
QuietSgups ==
    ("A" :> [ssg |-> Ssg("A"), max |-> MaxCap, alloc |-> 0])
    @@ ("B" :> [ssg |-> Ssg("B"), max |-> MaxCap, alloc |-> 1])

QuietShards ==
    ("X" :> [sgup |-> "A", max |-> MaxCap, alloc |-> 0])
    @@ ("Y" :> [sgup |-> "B", max |-> MaxCap, alloc |-> 1])

QuietInit ==
    /\ sgups = QuietSgups
    /\ shards = QuietShards
    /\ \E q \in {0, 500}, l \in {<<>>, <<Basic>>} :
          sctxs = ("c1" :> [rq |-> q, rsg |-> l, shard |-> ""])
                  @@ ("c2" :> [rq |-> 500, rsg |-> <<Basic>>, shard |-> ""])
    /\ cfg \in {Defaults(q, g) : q \in {0, 1000}, g \in {<<>>, <<"b">>}}
    /\ \E first \in {<<>>, <<ShardEvent("X")>>} :
          stream = first \o <<CtxEvent(CtxRecord(sctxs, "c1")),
                               CtxEvent(CtxRecord(sctxs, "c2"))>>
    /\ pc = "subscribe"
    /\ todo = {}
    /\ inv = NoInv(Upsf(shards, sgups, sctxs))
    /\ bumps = [n \in {} |-> 0]
    /\ extShard = 0
    /\ stop = FALSE /\ mainpc = "running"
    /\ racers = NoRacers /\ writes = FALSE
    /\ mpc = "off" /\ cycle = NoCycle
    /\ created = [n \in {} |-> 0]
    /\ fails = MaxFails

QuietNext ==
    \/ LiveSubscribe
    \/ ShardEventHandler
    \/ MapAllInvocation
    \/ ContextEventInvocation

QuietSpec ==
    /\ QuietInit
    /\ [][QuietNext]_vars
    /\ WF_vars(LiveSubscribe)
    /\ WF_vars(ShardEventHandler)
    /\ WF_vars(MapAllInvocation)
    /\ WF_vars(ContextEventInvocation)

\* ------------------------------------------------------------------ the periodic thread and stop()
\* initialize() with a policy file, the thread of upsf_register_task, the
\* start of run(), and a call of stop()
Entry5 == ("name" :> "u5") @@ ("circuitId" :> "q")
             @@ ("requiredServiceGroups" :> <<Basic>>)

TaskInit ==
    /\ sgups = ("A" :> [ssg |-> Ssg("A"), max |-> MaxCap, alloc |-> 0])
               @@ ("B" :> [ssg |-> Ssg("B"), max |-> MaxCap, alloc |-> 0])
    /\ shards = ("X" :> [sgup |-> "A", max |-> MaxCap, alloc |-> 0])
    /\ sctxs = [n \in {} |-> 0]
    /\ cfg \in {[Defaults(1000, <<"b">>) EXCEPT !.config_file = f,
                                                 !.upsf_auto_register = TRUE] :
                   f \in {[exists |-> TRUE, empty |-> FALSE,
                           sessionContexts |-> <<Entry1, Entry5>>],
                          [exists |-> TRUE, empty |-> FALSE,
                           sessionContexts |-> <<Entry4, Entry3>>]}}
    /\ stream = <<>>
    /\ pc = "initialize"
    /\ todo = {}
    /\ inv = NoInv(Upsf(shards, sgups, sctxs))
    /\ bumps = [n \in {} |-> 0]
    /\ extShard = 0
    /\ stop = FALSE /\ mainpc = "running"
    /\ racers = NoRacers /\ writes = FALSE
    /\ mpc = "off" /\ cycle = NoCycle
    /\ created = [n \in {} |-> 0]
    /\ fails = 0

TaskNext ==
    \/ MatStartup
    \/ InitialMappingBegin
    \/ MapAllStep
    \/ MatPeriodic
    \/ ClientWritesShard
    \/ Subscribe
    \/ ShardEventHandler
    \/ ContextEventHandler
    \/ StopCalled
    \/ ReconcilerEnds

TaskSpec == TaskInit /\ [][TaskNext]_vars

\* ------------------------------------------------------------------ racing placements, call by call
\* N invocations of map_session (peer instances, one session context each)
\* have listed the same shards and SGUPs and selected; each goes through the
\* UPSF calls of the "set shard" block and the commit step one call at a time
Writers == 1..NRacers

RacerCtx(w) == <<"c1", "c2", "c3", "c4">>[w]

\* the value written by update_shard / update_service_gateway_user_plane
\* from the count just read
Incremented_not(count) == count

Incremented(count) == count + 1

LagInit ==
    /\ \E a \in {0, 1} :
          /\ shards = ("X" :> [sgup |-> "A", max |-> MaxCap, alloc |-> a])
                       @@ ("Y" :> [sgup |-> "A", max |-> MaxCap, alloc |-> MaxCap - 1])
          /\ sgups = ("A" :> [ssg |-> {Basic}, max |-> MaxCap, alloc |-> a])
    /\ sctxs = [n \in {RacerCtx(w) : w \in Writers} |->
                   [rq |-> 500, rsg |-> <<Basic>>, shard |-> ""]]
    /\ racers \in [Writers -> [at : {"get_shard"}, read : {0},
                               sgup : DOMAIN sgups, shard : DOMAIN shards]]
    /\ \A w \in Writers :
          /\ WantsShard(CtxRecord(sctxs, RacerCtx(w)))
          /\ racers[w].sgup \in Least(SgupLoad(shards, sgups, CtxRecord(sctxs, RacerCtx(w))),
                                      sgups)
          /\ racers[w].shard \in Least(ShardLoad(shards, racers[w].sgup), shards)
    /\ cfg = Defaults(1000, <<"b">>)
    /\ stream = <<>>
    /\ pc = "racing"
    /\ todo = {}
    /\ inv = NoInv(Upsf(shards, sgups, sctxs))
    /\ bumps = [n \in {} |-> 0]
    /\ extShard = 0
    /\ stop = FALSE /\ mainpc = "running"
    /\ writes = FALSE
    /\ mpc = "off" /\ cycle = NoCycle
    /\ created = [n \in {} |-> 0]
    /\ fails = 0

\* the racer w moves on to the call `at`, having read `read`
RacerAt(w, at, read) == racers' = [racers EXCEPT ![w].at = at, ![w].read = read]

\* self._upsf.get_shard(name=shard_name_selected).status.allocated_session_count
PeerGetShard(w) ==
    /\ racers[w].at = "get_shard"
    /\ RacerAt(w, "update_shard", shards[racers[w].shard].alloc)
    /\ UNCHANGED <<upsf, stream, cfg, pc, todo, inv, cycle, bumps, env, mat, ctl, writes>>

\* self._upsf.update_shard(**shard_params)
PeerUpdateShard(w) ==
    /\ racers[w].at = "update_shard"
    /\ shards' = [shards EXCEPT ![racers[w].shard].alloc = Incremented(racers[w].read)]
    /\ stream' = Append(stream, ShardEvent(racers[w].shard))
    /\ RacerAt(w, "get_service_gateway_user_plane", 0)
    /\ UNCHANGED <<sgups, sctxs, cfg, pc, todo, inv, cycle, bumps, env, mat, ctl, writes>>

\* self._upsf.get_service_gateway_user_plane(name=sgup_name_selected)
PeerGetSgup(w) ==
    /\ racers[w].at = "get_service_gateway_user_plane"
    /\ RacerAt(w, "update_service_gateway_user_plane", sgups[racers[w].sgup].alloc)
    /\ UNCHANGED <<upsf, stream, cfg, pc, todo, inv, cycle, bumps, env, mat, ctl, writes>>

\* self._upsf.update_service_gateway_user_plane(**sgup_params)
PeerUpdateSgup(w) ==
    /\ racers[w].at = "update_service_gateway_user_plane"
    /\ sgups' = [sgups EXCEPT ![racers[w].sgup].alloc = Incremented(racers[w].read)]
    /\ RacerAt(w, "update_session_context", 0)
    /\ UNCHANGED <<shards, sctxs, stream, cfg, pc, todo, inv, cycle, bumps, env, mat,
                   ctl, writes>>

\* self._upsf.update_session_context(**params), params = {desired_shard}
PeerUpdateContext(w) ==
    /\ racers[w].at = "update_session_context"
    /\ sctxs' = [sctxs EXCEPT ![RacerCtx(w)].shard = racers[w].shard]
    /\ stream' = Append(stream, CtxEvent(CtxRecord(sctxs', RacerCtx(w))))
    /\ RacerAt(w, "done", 0)
    /\ UNCHANGED <<shards, sgups, cfg, pc, todo, inv, cycle, bumps, env, mat, ctl, writes>>

PeerGetsShard == \E w \in Writers : PeerGetShard(w)
PeerUpdatesShard == \E w \in Writers : PeerUpdateShard(w)
PeerGetsSgup == \E w \in Writers : PeerGetSgup(w)
PeerUpdatesSgup == \E w \in Writers : PeerUpdateSgup(w)
PeerUpdatesContext == \E w \in Writers : PeerUpdateContext(w)

LagNext ==
    \/ PeerGetsShard
    \/ PeerUpdatesShard
    \/ PeerGetsSgup
    \/ PeerUpdatesSgup
    \/ PeerUpdatesContext

LagSpec == LagInit /\ [][LagNext]_vars

\* C21: when the N racing invocations have all finished, the shard and the
\* SGUP they chose are between 1 and N above their initial count, all N
\* session contexts have the shard as desired_shard, and so each counter lags
\* behind the N placements by at most N - 1.
AllDone == racers # NoRacers /\ \A w \in Writers : racers[w].at = "done"

Placed(x) == {n \in DOMAIN sctxs : sctxs[n].shard = x}

ShardGain(x) == shards[x].alloc - inv.pre.shards[x].alloc

SgupGain(g) == sgups[g].alloc - inv.pre.sgups[g].alloc

C21_LagBounds ==
    AllDone =>
        /\ \A w \in Writers : racers[w].shard = "X" /\ racers[w].sgup = "A"
        /\ Cardinality(Placed("X")) = NRacers
        /\ ShardGain("X") \in 1..NRacers
        /\ SgupGain("A") \in 1..NRacers
        /\ Cardinality(Placed("X")) - ShardGain("X") \in 0..(NRacers - 1)
        /\ Cardinality(Placed("X")) - SgupGain("A") \in 0..(NRacers - 1)

\* all N have finished, the shard counter is only 1 higher (the largest lag)
\* and the SGUP counter lags too
C21_Witness ==
    /\ AllDone
    /\ ShardGain("X") = 1
    /\ SgupGain("A") < NRacers

\* ------------------------------------------------------------------ claims on UpsfError in map_session
\* the step is an invocation of map_session in which a UPSF call raised
Raised == inv' # inv /\ inv'.outcome = "UpsfError"

\* the counters of shard x and SGUP g raised by ds and dg, all else as before
Bumped(x, ds, g, dg) ==
    /\ shards' = [y \in DOMAIN shards |->
                     IF y = x THEN [shards[y] EXCEPT !.alloc = @ + ds] ELSE shards[y]]
    /\ sgups' = [h \in DOMAIN sgups |->
                     IF h = g THEN [sgups[h] EXCEPT !.alloc = @ + dg] ELSE sgups[h]]

\* C17: an UpsfError raised in map_session ends the invocation and nothing
\* else: the caller goes on (map_all_sessions with the next session context,
\* the watch loop with the next item), the counters written before the error
\* stay written and no session context is changed.
C17_NoRollback ==
    [][ Raised =>
          /\ sctxs' = sctxs
          /\ pc \in {"initial_mapping_loop", "watch_mapping_loop"} =>
                /\ todo' = todo \ {inv'.sctx}
                /\ pc' = IF todo' # {} THEN pc
                         ELSE IF pc = "initial_mapping_loop" THEN "subscribe"
                         ELSE "watch"
          /\ pc = "watch" => pc' = "watch"
          /\ inv'.fail \in {"get_service_gateway_user_plane",
                            "update_service_gateway_user_plane"} =>
                Bumped(inv'.shard, 1, inv'.sgup, 0)
          /\ (inv'.fail = "update_session_context" /\ inv'.shard # "") =>
                Bumped(inv'.shard, 1, inv'.sgup, 1)
          /\ (inv'.fail \notin {"get_service_gateway_user_plane",
                                "update_service_gateway_user_plane"}
              /\ ~(inv'.fail = "update_session_context" /\ inv'.shard # "")) =>
                Bumped("", 0, "", 0)
      ]_vars

\* after an UpsfError at the read of the SGUP inside map_all_sessions the
\* shard is one higher, the session context has no shard and the loop has
\* another session context to map
C17_Witness ==
    /\ inv.outcome = "UpsfError"
    /\ inv.fail = "get_service_gateway_user_plane"
    /\ pc = "watch_mapping_loop"
    /\ todo # {}
    /\ shards[inv.shard].alloc = inv.pre.shards[inv.shard].alloc + 1
    /\ sgups = inv.pre.sgups
    /\ sctxs[inv.sctx.name].shard = ""

\* ------------------------------------------------------------------ claims on a selected SGUP without usable shard
\* the step is an invocation of map_session
Invokes ==
    \/ pc \in {"initial_mapping_loop", "watch_mapping_loop"}
    \/ pc = "watch" /\ stream # <<>> /\ Dispatch(Head(stream)) = "session_context"

\* the invocation selected an SGUP none of whose shards is usable
NoUsableShard ==
    /\ Invokes
    /\ inv'.sgup # ""
    /\ ShardLoad(shards, inv'.sgup) = {}

\* C18: when the selected SGUP has no usable shard the invocation returns
\* normally and writes nothing; map_all_sessions goes on with the remaining
\* session contexts and the watch loop keeps its stream.
C18_Original ==
    [][ NoUsableShard =>
          /\ inv'.calls = <<>>
          /\ upsf' = upsf
          /\ inv'.outcome = "returned"
          /\ pc \in {"initial_mapping_loop", "watch_mapping_loop"} =>
                /\ todo' = todo \ {inv'.sctx}
                /\ pc' = IF todo' # {} THEN pc
                         ELSE IF pc = "initial_mapping_loop" THEN "subscribe"
                         ELSE "watch"
          /\ pc = "watch" => pc' = "watch"
      ]_vars

\* ------------------------------------------------------------------ claims on placement after the defaults
\* the invocation got a session context without desired_shard and without
\* required service groups, the configured default list is not empty, and a
\* placement with that list is feasible: some SGUP with a shard supports the
\* list and has room, and every shard has room
FilledAndFeasible ==
    /\ pc = "called"
    /\ inv.fail = "none"
    /\ UnsetShard(inv.sctx.shard)
    /\ UnsetGroups(inv.sctx.rsg)
    /\ DefaultGroups(cfg) # <<>>
    /\ Eligible(inv.pre, DefaultGroups(cfg)) # {}
    /\ \A x \in DOMAIN inv.pre.shards :
          /\ inv.pre.shards[x].max > 0
          /\ inv.pre.shards[x].alloc < inv.pre.shards[x].max

\* C19: a session context without desired_shard whose empty
\* required_service_groups was filled from a non-empty default list is placed
\* in that same invocation, and its single update_session_context carries the
\* defaults and desired_shard.
C19_Original ==
    FilledAndFeasible =>
        /\ Cardinality(At("update_session_context")) = 1
        /\ \A c \in Calls("update_session_context") :
              {"required_service_group", "desired_shard"} \subseteq DOMAIN c.params

\* ------------------------------------------------------------------ claims on the commit step
\* update_session_context was issued by the invocation
Issued == At("update_session_context") # {}

\* the invocation came to the commit step with something to write: both
\* lists were non-empty and either the "set shard" block was entered and
\* chose a shard, or it was not entered and a default was filled in
CommitsSomething ==
    /\ DOMAIN inv.pre.shards # {}
    /\ DOMAIN inv.pre.sgups # {}
    /\ IF WantsShard(inv.sctx)
       THEN inv.shard # ""
       ELSE UnsetQuality(inv.sctx.rq) \/ UnsetGroups(inv.sctx.rsg)

\* C20 as stated: an invocation that returns normally issues
\* update_session_context exactly when it filled in a default (the two
\* defaults blocks come after the checks of the two lists) or chose a shard.
C20_Original ==
    (pc = "called" /\ inv.outcome = "returned") =>
        (Issued <=> \/ /\ DOMAIN inv.pre.shards # {}
                       /\ DOMAIN inv.pre.sgups # {}
                       /\ UnsetQuality(inv.sctx.rq) \/ UnsetGroups(inv.sctx.rsg)
                    \/ inv.shard # "")

\* C20: an invocation issues at most one update_session_context; one that
\* returns normally issues it exactly when it came to the commit step with
\* something to write (a default filled in before an infeasibility return
\* is dropped); an invocation on a session context whose required_quality,
\* required_service_groups and desired_shard are all set issues no UPSF
\* write at all.
C20_CommitStep ==
    pc = "called" =>
        /\ Cardinality(At("update_session_context")) <= 1
        /\ inv.outcome = "returned" => (Issued <=> CommitsSomething)
        /\ (/\ ~UnsetQuality(inv.sctx.rq)
            /\ ~UnsetGroups(inv.sctx.rsg)
            /\ ~UnsetShard(inv.sctx.shard)) => inv.calls = <<>>

\* an invocation that filled in the default quality and chose a shard, and
\* wrote both with one update_session_context
C20_Witness ==
    /\ pc = "called"
    /\ \E c \in Calls("update_session_context") :
          {"required_quality", "desired_shard"} \subseteq DOMAIN c.params
    /\ Cardinality(At("update_session_context")) = 1

\* ------------------------------------------------------------------ claims on the periodic thread
\* the policy entries that name a shard
ShardEntries == {e \in PolicyEntries : Get(e, "shard", "") # ""}

\* C22: a create_default_items cycle issues no create_session_context for a
\* policy entry that names a shard absent from the shard list the cycle read,
\* and the session context does not come into being in that cycle; a cycle
\* that completes and whose shard list has the shard creates the session
\* context, if it is not there, with that shard as desired_shard.
C22_DelayedCreation ==
    [][ \A e \in ShardEntries :
          LET n == EntryHash(e)
          IN  /\ e["shard"] \notin cycle'.shards =>
                    /\ n \notin ToSet(cycle'.issued)
                    /\ n \notin DOMAIN sctxs => n \notin DOMAIN sctxs'
              /\ (/\ e["shard"] \in cycle'.shards
                  /\ cycle'.outcome = "returned"
                  /\ n \notin DOMAIN sctxs) =>
                    /\ n \in ToSet(cycle'.issued)
                    /\ sctxs'[n].shard = e["shard"]
      ]_vars

\* a cycle created the session context of an entry that names a shard, with
\* that shard, after an earlier cycle had passed the entry by and created
\* the session context of the entry behind it
C22_Witness ==
    \E e \in ShardEntries :
        /\ EntryHash(e) \in ToSet(cycle.issued)
        /\ sctxs[EntryHash(e)].shard = e["shard"]
        /\ DOMAIN cycle.before # {}
        /\ e["shard"] \in cycle.shards

\* C23: once the stop signal is set, the thread of upsf_register_task starts
\* no further create_default_items cycle and issues no further
\* create_session_context.
C23_Original ==
    [][ stop => cycle' = cycle /\ created' = created ]_vars

\* ------------------------------------------------------------------ claims on overlap inside one process
\* the step is a create_default_items cycle
CycleStep == cycle' # cycle \/ created' # created

\* the step is a map_session invocation that raised a counter
PlacementStep == bumps' # bumps

InitializePcs == {"initialize", "initial_mapping", "initial_mapping_loop"}

\* C24: placements are made by the one thread of initialize() and run() only:
\* run() begins when the initial map_all_sessions is over; while a re-map is
\* under way the next item stays in the stream; a create_default_items cycle,
\* which can come between two invocations, updates no shard, no SGUP and no
\* existing session context and makes no placement.
C24_NoOverlap ==
    [][ /\ CycleStep =>
              /\ shards' = shards /\ sgups' = sgups /\ bumps' = bumps
              /\ \A n \in DOMAIN sctxs : n \in DOMAIN sctxs' /\ sctxs'[n] = sctxs[n]
              /\ pc \in InitializePcs \ {"initialize"} => pc' = pc /\ todo' = todo
              /\ pc \notin InitializePcs => pc' = pc /\ todo' = todo
        /\ PlacementStep =>
              /\ pc \in {"initial_mapping_loop", "watch_mapping_loop", "watch"}
              /\ ~CycleStep /\ mpc' = mpc
        /\ (pc \in InitializePcs /\ pc' \notin InitializePcs \cup {"crashed"}) =>
              /\ pc' = "subscribe" /\ todo' = {}
              /\ \/ pc = "initial_mapping_loop" /\ Cardinality(todo) = 1
                 \/ pc = "initial_mapping" /\ ListedContexts = {}
        /\ (pc = "watch_mapping_loop" /\ stream # <<>>) =>
              stream' # <<>> /\ Head(stream') = Head(stream)
        /\ (pc # "watch_mapping_loop" /\ pc' = "watch_mapping_loop") =>
              pc = "watch" /\ todo = {}
      ]_vars

\* the initial map_all_sessions is under way and a create_default_items
\* cycle has run after a placement of that same loop: the cycle found a
\* session context with the shard that the loop had given it
C24_Witness ==
    /\ pc = "initial_mapping_loop"
    /\ todo # {}
    /\ \E m \in DOMAIN cycle.before \cap DOMAIN bumps : cycle.before[m].shard # ""

\* ------------------------------------------------------------------ claims on quiescence
\* C25: with fixed shards, SGUPs and session contexts, one watch event per
\* write of map_session and no UPSF failure, run() eventually issues no
\* further UPSF write, whatever the configured defaults are.
C25_Original == <>[][writes' = writes]_vars

\* the same when the default quality is not 0 and the default list of
\* service groups is not empty
C25_QuietWithDefaults ==
    (cfg.default_required_quality # 0 /\ DefaultGroups(cfg) # <<>>)
        => <>[][writes' = writes]_vars

\* ------------------------------------------------------------------ claims on counter accounting
RECURSIVE SumOver(_, _)
SumOver(S, f) ==
    IF S = {} THEN 0
    ELSE LET x == CHOOSE y \in S : TRUE IN f[x] + SumOver(S \ {x}, f)

\* how far each shard and each SGUP is above its initial count
QuietShardGain == [x \in DOMAIN shards |-> shards[x].alloc - QuietShards[x].alloc]

QuietSgupGain == [g \in DOMAIN sgups |-> sgups[g].alloc - QuietSgups[g].alloc]

\* C26: with this process as the only writer of the counters and no UPSF
\* failure, every shard is above its initial count by the number of session
\* contexts that map_session gave that shard, and every SGUP by the sum of
\* the increases of its shards.
C26_Original ==
    /\ \A x \in DOMAIN shards : QuietShardGain[x] = Cardinality(Placed(x))
    /\ \A g \in DOMAIN sgups :
          QuietSgupGain[g] = SumOver(ShardCandidates(shards, g), QuietShardGain)

\* the second half alone: every SGUP is above its initial count by the sum
\* of the increases of its shards
C26_SgupFollowsShards ==
    \A g \in DOMAIN sgups :
        QuietSgupGain[g] = SumOver(ShardCandidates(shards, g), QuietShardGain)

\* every counter bump belongs to one placement made by map_session: the
\* shards together are above their initial counts by the number of placements
C26_GainPerPlacement ==
    SumOver(DOMAIN shards, QuietShardGain) = SumOver(DOMAIN bumps, bumps)

====
